---- MODULE Spec2Model ----
(***************************************************************************)
(* kitsune/customercare/cron.py: the three cron jobs collect_tweets,       *)
(* purge_tweets and get_customercare_stats, and the helpers _filter_tweet  *)
(* and _get_oldest_tweet.                                                  *)
(*                                                                         *)
(* Text is a sequence of one-character strings, so that lower(), replace(),*)
(* find() and the three regular expressions are computed character by      *)
(* character.  Python's None is the empty sequence <<>> and a present      *)
(* value v is <<v>>.                                                       *)
(***************************************************************************)
EXTENDS Integers, Sequences, FiniteSets, Bags, TLC

VARIABLES
    item, allow_links, ret,      \* one call of _filter_tweet: arguments, return value
    statsd,                      \* counters incremented by the running job
    pc,                          \* position of the running job
    error,                       \* exception that left the running job, "" when none
    stage,                       \* settings.STAGE
    tweets,                      \* the Tweet table, a bag of rows
    results,                     \* results['statuses'] of the running collect_tweets
    idx,                         \* loop position of the running collect_tweets
    since_id,                    \* search_options['since_id'] of the running collect_tweets
    deleted,                     \* rows removed by the last purge_tweets
    skipped,                     \* positions of results whose save raised IntegrityError
    replies,                     \* the Reply table
    now,                         \* datetime.now() of get_customercare_stats
    sort_key,                    \* settings.CC_TOP_CONTRIB_SORT
    yielded,                     \* rows Reply.objects.all() has yielded to the running job
    contributor_stats,           \* the dict username -> stats of the running job
    ranked,                      \* contributor_stats after the sort and the slice
    result,                      \* return value of the last get_customercare_stats
    prev_result,                 \* return value of the run before it
    cache,                       \* value stored in redis under CC_TOP_CONTRIB_CACHE_KEY
    redis_ok                     \* whether the last redis write went through

vars == <<item, allow_links, ret, statsd, pc, error, stage, tweets, results, idx,
          since_id, deleted, skipped, replies, now, sort_key, yielded,
          contributor_stats, ranked, result, prev_result, cache, redis_ok>>

filter_vars == <<item, allow_links, ret>>
store_vars == <<stage, tweets, results, since_id, deleted, skipped>>
stats_vars == <<replies, now, sort_key, yielded, contributor_stats, ranked, result,
                prev_result, cache, redis_ok>>

None == <<>>
Some(v) == <<v>>

----------------------------------------------------------------------------
(* Characters and strings                                                  *)

UpperChars == <<"A", "B", "C", "D", "E", "F", "G", "H", "I", "J", "K", "L", "M",
                "N", "O", "P", "Q", "R", "S", "T", "U", "V", "W", "X", "Y", "Z">>
LowerChars == <<"a", "b", "c", "d", "e", "f", "g", "h", "i", "j", "k", "l", "m",
                "n", "o", "p", "q", "r", "s", "t", "u", "v", "w", "x", "y", "z">>
DigitChars == {"0", "1", "2", "3", "4", "5", "6", "7", "8", "9"}

\* the characters other than letters and digits that texts are made of
OtherChars == {"_", " ", "@", "#", "(", ")", ":", "/", ".", "!"}

\* the class \w of the re module: [a-zA-Z0-9_]
WordChars ==
    {UpperChars[i] : i \in 1..26} \cup {LowerChars[i] : i \in 1..26}
        \cup DigitChars \cup {"_"}

IsWordChar(c) == c \in WordChars

\* the lower-case form of every character
LowerOf ==
    [c \in WordChars \cup OtherChars |->
        IF \E i \in 1..26 : c = UpperChars[i]
        THEN LowerChars[CHOOSE i \in 1..26 : c = UpperChars[i]]
        ELSE c]

LowerChar(c) == LowerOf[c]

\* str.lower()
lower(s) == [i \in 1..Len(s) |-> LowerChar(s[i])]

\* sub occurs in s starting at position i (1-based)
MatchAt(s, sub, i) ==
    /\ i >= 1
    /\ i + Len(sub) - 1 <= Len(s)
    /\ \A j \in 1..Len(sub) : s[i + j - 1] = sub[j]

\* str.find(sub): lowest 0-based index of sub in s, -1 when absent
find(s, sub) ==
    IF \E i \in 1..(Len(s) + 1) : MatchAt(s, sub, i)
    THEN (CHOOSE i \in 1..(Len(s) + 1) :
             /\ MatchAt(s, sub, i)
             /\ \A k \in 1..(i - 1) : ~MatchAt(s, sub, k)) - 1
    ELSE -1

\* the `in` operator on strings
contains(s, sub) == find(s, sub) > -1

\* str.replace(old, ''): every non-overlapping occurrence, left to right
RECURSIVE remove_from(_, _, _)
remove_from(s, old, i) ==
    IF i > Len(s) THEN <<>>
    ELSE IF MatchAt(s, old, i) THEN remove_from(s, old, i + Len(old))
    ELSE <<s[i]>> \o remove_from(s, old, i + 1)

replace(s, old) == remove_from(s, old, 1)

S_at == <<"@">>
S_via == <<"(", "v", "i", "a", " ">>
S_fxinput == <<"#", "f", "x", "i", "n", "p", "u", "t">>

\* LINK_REGEX = re.compile('https?\:', re.IGNORECASE), .search(s)
LINK_REGEX_search(s) ==
    \E i \in 1..Len(s) :
        /\ MatchAt(lower(s), <<"h", "t", "t", "p">>, i)
        /\ \/ MatchAt(s, <<":">>, i + 4)
           \/ MatchAt(lower(s), <<"s", ":">>, i + 4)

\* MENTION_REGEX = re.compile('(^|\W)@'), .search(s)
MENTION_REGEX_search(s) ==
    \E i \in 1..Len(s) :
        /\ s[i] = "@"
        /\ (i = 1 \/ ~IsWordChar(s[i - 1]))

\* RT_REGEX = re.compile('^rt\W', re.IGNORECASE), .search(s)
RT_REGEX_search(s) ==
    /\ Len(s) >= 3
    /\ LowerChar(s[1]) = "r"
    /\ LowerChar(s[2]) = "t"
    /\ ~IsWordChar(s[3])

U_Firefox == <<"F", "i", "r", "e", "f", "o", "x">>
U_FirefoxBrasil == <<"F", "i", "r", "e", "f", "o", "x", "B", "r", "a", "s", "i", "l">>

ALLOWED_USERS ==
    << [id |-> 2142731, username |-> U_Firefox],
       [id |-> 150793437, username |-> U_FirefoxBrasil] >>

\* settings.CC_IGNORE_USERS
CC_IGNORE_USERS == {"fx4status"}

----------------------------------------------------------------------------
(* statsd counters                                                         *)

K_collected == "customercare.tweet.collected"
K_saved == "customercare.tweet.saved"
K_reply_or_mention == "customercare.tweet.rejected.reply_or_mention"
K_retweet == "customercare.tweet.rejected.retweet"
K_link == "customercare.tweet.rejected.link"
K_user == "customercare.tweet.rejected.user"
K_redis_error == "redis.error"

RejectCounters == {K_reply_or_mention, K_retweet, K_link, K_user}
CounterNames == RejectCounters \cup {K_collected, K_saved, K_redis_error}

NoCounts == [k \in CounterNames |-> 0]

\* statsd.incr(k), once for every element of the sequence ks
RECURSIVE incr_all(_, _)
incr_all(st, ks) ==
    IF ks = <<>> THEN st
    ELSE incr_all([st EXCEPT ![Head(ks)] = @ + 1], Tail(ks))

----------------------------------------------------------------------------
(* _filter_tweet                                                           *)

\* truth value of an optional integer: None and 0 are false
Truthy(opt) == opt # None /\ opt[1] # 0

AllowedIds == {ALLOWED_USERS[i].id : i \in 1..Len(ALLOWED_USERS)}

\* the loop that removes '@' + username.lower() of every allowed user, in order
RECURSIVE strip_allowed(_, _)
strip_allowed(text, k) ==
    IF k > Len(ALLOWED_USERS) THEN text
    ELSE strip_allowed(replace(text, S_at \o lower(ALLOWED_USERS[k].username)), k + 1)

Rejected(counter) == [ret |-> None, incr |-> <<counter>>]
Accepted(it) == [ret |-> Some(it), incr |-> <<>>]

reply_check(it) ==
    Truthy(it.to_user_id) /\ it.to_user_id[1] \notin AllowedIds

mention_check(it) ==
    MENTION_REGEX_search(strip_allowed(lower(it.text), 1))

retweet_check(it) ==
    RT_REGEX_search(lower(it.text)) \/ find(lower(it.text), S_via) > -1

link_check(it, links_allowed) ==
    ~links_allowed /\ LINK_REGEX_search(lower(it.text))

user_check(it) ==
    it.user.screen_name \in CC_IGNORE_USERS

\* faulty variant: the retweet check is left out
filter_tweet_no_retweet(it, links_allowed) ==
    IF reply_check(it) THEN Rejected(K_reply_or_mention)
    ELSE IF mention_check(it) THEN Rejected(K_reply_or_mention)
    ELSE IF link_check(it, links_allowed) THEN Rejected(K_link)
    ELSE IF user_check(it) THEN Rejected(K_user)
    ELSE Accepted(it)

\* faulty variant: allow_links is ignored, every link is rejected
filter_tweet_links_always(it, links_allowed) ==
    IF reply_check(it) THEN Rejected(K_reply_or_mention)
    ELSE IF mention_check(it) THEN Rejected(K_reply_or_mention)
    ELSE IF retweet_check(it) THEN Rejected(K_retweet)
    ELSE IF link_check(it, FALSE) THEN Rejected(K_link)
    ELSE IF user_check(it) THEN Rejected(K_user)
    ELSE Accepted(it)

\* faulty variant: the blocked-author check runs before the link check
filter_tweet_user_first(it, links_allowed) ==
    IF reply_check(it) THEN Rejected(K_reply_or_mention)
    ELSE IF mention_check(it) THEN Rejected(K_reply_or_mention)
    ELSE IF retweet_check(it) THEN Rejected(K_retweet)
    ELSE IF user_check(it) THEN Rejected(K_user)
    ELSE IF link_check(it, links_allowed) THEN Rejected(K_link)
    ELSE Accepted(it)

filter_tweet(it, links_allowed) ==
    IF reply_check(it) THEN Rejected(K_reply_or_mention)
    ELSE IF mention_check(it) THEN Rejected(K_reply_or_mention)
    ELSE IF retweet_check(it) THEN Rejected(K_retweet)
    ELSE IF link_check(it, links_allowed) THEN Rejected(K_link)
    ELSE IF user_check(it) THEN Rejected(K_user)
    ELSE Accepted(it)

----------------------------------------------------------------------------
(* Values the variables of the other jobs hold while one job is studied    *)

StoreBlank ==
    /\ stage = FALSE
    /\ tweets = EmptyBag
    /\ results = <<>>
    /\ since_id = None
    /\ deleted = EmptyBag
    /\ skipped = {}

StatsBlank ==
    /\ replies = {}
    /\ now = 0
    /\ sort_key = "all"
    /\ yielded = {}
    /\ contributor_stats = <<>>
    /\ ranked = <<>>
    /\ result = None
    /\ prev_result = None
    /\ cache = None
    /\ redis_ok = TRUE

FilterBlank ==
    /\ item = None
    /\ allow_links = FALSE
    /\ ret = None

----------------------------------------------------------------------------
(* SpecFilter: one call of _filter_tweet on an arbitrary candidate         *)

S_RT == <<"R", "T">>
S_space == <<" ">>
S_at_Firefox == <<"@", "F", "i", "r", "e", "f", "o", "x">>
S_at_x == <<"@", "x">>
S_http == <<"h", "t", "t", "p", ":">>
S_https == <<"H", "T", "T", "P", "S", ":">>
S_x == <<"x">>

T_rt_someone == <<"R", "T", " ", "@", "s", "o", "m", "e", "o", "n", "e", ":", " ", "c", "h", "e", "c", "k", " ", "t", "h", "i", "s", " ", "o", "u", "t">>
T_via_someone == <<"F", "i", "r", "e", "f", "o", "x", " ", "i", "s", " ", "a", "w", "e", "s", "o", "m", "e", " ", "(", "v", "i", "a", " ", "@", "s", "o", "m", "e", "o", "n", "e", ")">>
T_hey_someone == <<"H", "e", "y", " ", "@", "s", "o", "m", "e", "o", "n", "e", "!">>
T_plain == <<"F", "i", "r", "e", "f", "o", "x", " ", "r", "o", "c", "k", "s">>
T_link == <<"s", "e", "e", " ", "h", "t", "t", "p", ":", "/", "/", "x", ".", "y">>
T_fxinput_link == <<"#", "f", "x", "i", "n", "p", "u", "t", " ", "h", "t", "t", "p", "s", ":", "/", "/", "x", ".", "y">>
T_at_firefoxbrasil == <<"o", "i", " ", "@", "F", "i", "r", "e", "f", "o", "x", "B", "r", "a", "s", "i", "l">>
T_rt_colon == <<"r", "t", ":", " ", "o", "l", "d", " ", "n", "e", "w", "s">>

\* the pieces candidate texts are built from
Fragments == <<S_RT, S_space, S_at_Firefox, S_at_x, S_via, S_http, S_https, S_x>>

\* longest text, counted in fragments
MaxFragments == 3

RECURSIVE TextsOf(_)
TextsOf(k) ==
    IF k = 0 THEN {<<>>}
    ELSE LET shorter == TextsOf(k - 1)
         IN shorter \cup {t \o Fragments[i] : t \in shorter, i \in 1..Len(Fragments)}

FilterTexts ==
    TextsOf(MaxFragments)
        \cup {T_rt_someone, T_via_someone, T_hey_someone, T_plain, T_link,
              T_fxinput_link, T_at_firefoxbrasil, T_rt_colon}

\* account ids of the platform are positive
FilterItems ==
    [ id : {1},
      text : FilterTexts,
      to_user_id : {None, Some(2142731), Some(12345)},
      user : {[screen_name |-> "alice"], [screen_name |-> "fx4status"]},
      metadata : {[iso_language_code |-> Some("en")]},
      created_at : {[valid |-> TRUE, secs |-> 10]} ]

InitFilter ==
    /\ item \in FilterItems
    /\ allow_links \in BOOLEAN
    /\ ret = None
    /\ statsd = NoCounts
    /\ pc = "call"
    /\ error = ""
    /\ idx = 0
    /\ StoreBlank
    /\ StatsBlank

FilterCall ==
    /\ pc = "call"
    /\ LET r == filter_tweet(item, allow_links)
       IN /\ ret' = r.ret
          /\ statsd' = incr_all(statsd, r.incr)
    /\ pc' = "returned"
    /\ UNCHANGED <<item, allow_links, error, idx>>
    /\ UNCHANGED store_vars
    /\ UNCHANGED stats_vars

NextFilter == FilterCall

SpecFilter == InitFilter /\ [][NextFilter]_vars

\* the counters after a call that incremented exactly the counter k
OnlyCounter(k) == [NoCounts EXCEPT ![k] = 1]

\* the text is a retweet in the words of the claim: it matches ^rt\W
\* case-insensitively or contains the substring '(via '
IsRetweetText(text) == RT_REGEX_search(text) \/ contains(text, S_via)

\* the text holds an http: or https: scheme marker
HasLink(text) == LINK_REGEX_search(text)

\* C3 as stated: every candidate whose text matches ^rt\W or contains
\* '(via ' is rejected with the retweet counter, whatever link or mention
\* it also holds; 'RT @someone: check this out' is rejected as retweet.
C3_AsStated ==
    (pc = "returned" /\ IsRetweetText(item.text))
        => (ret = None /\ statsd = OnlyCounter(K_retweet))

\* C3 amended: every candidate whose text matches ^rt\W or contains '(via '
\* is rejected, whatever link it holds; the counter is retweet exactly when
\* neither the reply-target check nor the mention check matches, and
\* reply_or_mention otherwise, as for 'RT @someone: check this out'.
C3_RetweetRejected ==
    (pc = "returned" /\ IsRetweetText(item.text))
        => /\ ret = None
           /\ IF reply_check(item) \/ mention_check(item)
              THEN statsd = OnlyCounter(K_reply_or_mention)
              ELSE statsd = OnlyCounter(K_retweet)
           /\ (item.text = T_rt_someone => statsd = OnlyCounter(K_reply_or_mention))

C3_Witness ==
    /\ pc = "returned"
    /\ IsRetweetText(item.text)
    /\ HasLink(item.text)
    /\ ~allow_links
    /\ ret = None
    /\ statsd = OnlyCounter(K_retweet)

\* C4 as stated: a candidate whose text holds a link marker is rejected with
\* the link counter when allow_links is false; when allow_links is true it
\* is accepted if no other check matches and the link counter stays zero.
C4_AsStated ==
    (pc = "returned" /\ HasLink(item.text))
        => /\ ~allow_links => (ret = None /\ statsd = OnlyCounter(K_link))
           /\ allow_links => statsd[K_link] = 0
           /\ (/\ allow_links
               /\ ~reply_check(item)
               /\ ~mention_check(item)
               /\ ~retweet_check(item)
               /\ ~user_check(item)) => ret = Some(item)

\* C4 amended: with allow_links false a candidate whose text holds a link
\* marker is rejected, with the link counter exactly when none of the
\* reply-target, mention and retweet checks matches; with allow_links true
\* the link counter stays zero and the candidate is accepted when no other
\* check matches.
C4_LinkFilter ==
    (pc = "returned" /\ HasLink(item.text))
        => /\ ~allow_links => ret = None
           /\ ~allow_links =>
                 (statsd = OnlyCounter(K_link)
                    <=> ~(reply_check(item) \/ mention_check(item) \/ retweet_check(item)))
           /\ allow_links => statsd[K_link] = 0
           /\ (/\ allow_links
               /\ ~reply_check(item)
               /\ ~mention_check(item)
               /\ ~retweet_check(item)
               /\ ~user_check(item)) => ret = Some(item)

C4_Witness ==
    /\ pc = "returned"
    /\ HasLink(item.text)
    /\ allow_links
    /\ ret = Some(item)
    /\ statsd = NoCounts

\* the reply target is set and is no allow-listed account id
ReplyToStranger(it) ==
    it.to_user_id # None /\ it.to_user_id[1] \notin {2142731, 150793437}

\* C5: the checks run in the order reply-target, mention, retweet, link,
\* blocked author; the first that matches decides, so exactly one rejection
\* counter is incremented, once; a reply to an account that is not
\* allow-listed is rejected as reply_or_mention whatever else it holds; a
\* candidate that matches no check is returned unmodified and no counter moves.
C5_FirstMatchWins ==
    pc = "returned" =>
        /\ ReplyToStranger(item) => (ret = None /\ statsd = OnlyCounter(K_reply_or_mention))
        /\ IF reply_check(item) \/ mention_check(item)
              THEN ret = None /\ statsd = OnlyCounter(K_reply_or_mention)
           ELSE IF retweet_check(item)
              THEN ret = None /\ statsd = OnlyCounter(K_retweet)
           ELSE IF link_check(item, allow_links)
              THEN ret = None /\ statsd = OnlyCounter(K_link)
           ELSE IF user_check(item)
              THEN ret = None /\ statsd = OnlyCounter(K_user)
           ELSE ret = Some(item) /\ statsd = NoCounts

C5_Witness ==
    /\ pc = "returned"
    /\ link_check(item, allow_links)
    /\ user_check(item)
    /\ ret = None
    /\ statsd = OnlyCounter(K_link)

----------------------------------------------------------------------------
(* The Tweet table, collect_tweets and purge_tweets                        *)

\* json.dumps and json.loads: the serialized form is tagged, so that a
\* payload and its serialization are different values
json_dumps(obj) == <<"json", obj>>
json_loads(str) == str[2]

\* settings.CC_TWEETS_PERPAGE: the longest page the search returns
CC_TWEETS_PERPAGE == 2

\* settings.CC_MAX_TWEETS: posts kept per locale
CC_MAX_TWEETS == 1

\* settings.SUMO_LANGUAGES and the iso639_1 codes of settings.LOCALES;
\* "xx" stands for a language without an iso639_1 code
SUMO_LANGUAGES == <<"en-US", "pt-BR", "pt-PT", "xx">>
LOCALES ==
    [l \in {"en-US", "pt-BR", "pt-PT", "xx"} |->
        [iso639_1 |-> CASE l = "en-US" -> "en"
                        [] l = "pt-BR" -> "pt"
                        [] l = "pt-PT" -> "pt"
                        [] OTHER -> ""]]

\* texts of the statuses the search returns
P_plain == <<"f", "x", " ", "o", "k">>
P_at_allowed == <<"@", "F", "i", "r", "e", "f", "o", "x", "B", "r", "a", "s", "i", "l">>
P_fxinput_link == <<"#", "f", "x", "i", "n", "p", "u", "t", " ", "h", "t", "t", "p", ":">>
P_FXINPUT_link == <<"#", "F", "X", "I", "N", "P", "U", "T", " ", "h", "t", "t", "p", ":">>

\* a status of the search API
Status(id, text, to, name, lang, valid, secs) ==
    [ id |-> id, text |-> text, to_user_id |-> to,
      user |-> [screen_name |-> name],
      metadata |-> [iso_language_code |-> lang],
      created_at |-> [valid |-> valid, secs |-> secs] ]

\* the statuses the search can return
Statuses ==
    { Status(1, P_plain, None, "alice", Some("en"), TRUE, 10),
      Status(2, P_plain, Some(2142731), "bob", None, TRUE, 20),
      Status(3, P_fxinput_link, None, "carol", Some("en"), TRUE, 20),
      Status(4, P_at_allowed, None, "alice", Some("en"), TRUE, 30),
      Status(5, P_plain, None, "erin", Some("pt"), TRUE, 40),
      Status(6, P_FXINPUT_link, None, "bob", Some("en"), TRUE, 50),
      Status(7, P_plain, None, "frank", Some("en"), FALSE, 0) }

RECURSIVE PagesOf(_)
PagesOf(k) ==
    IF k = 0 THEN {<<>>}
    ELSE LET shorter == PagesOf(k - 1)
         IN shorter \cup {Append(p, st) : p \in shorter, st \in Statuses}

\* rows of the bag tw that satisfy locale = loc
RowsOf(tw, loc) == {r \in DOMAIN tw : r.locale = loc}

\* the bag tw restricted to the rows in S
Restrict(tw, S) == [r \in S |-> tw[r]]

\* Tweet.save(): the insert fails with IntegrityError when the id is stored
save(tw, row) ==
    IF \E r \in DOMAIN tw : r.tweet_id = row.tweet_id
    THEN [raised |-> TRUE, tweets |-> tw]
    ELSE [raised |-> FALSE, tweets |-> tw (+) SetToBag({row})]

\* Tweet.latest(): the row with the greatest tweet_id, None for DoesNotExist
latest(tw) ==
    IF DOMAIN tw = {} THEN None
    ELSE Some(CHOOSE r \in DOMAIN tw : \A q \in DOMAIN tw : q.tweet_id <= r.tweet_id)

\* rfc822.parsedate, calendar.timegm, datetime.utcfromtimestamp: None for a
\* string that does not parse (timegm(None) then raises TypeError)
parse_created(created_at) ==
    IF created_at.valid THEN Some(created_at.secs) ELSE None

\* item['metadata'].get('iso_language_code', 'en')
item_lang(it) ==
    IF it.metadata.iso_language_code = None THEN "en"
    ELSE it.metadata.iso_language_code[1]

Outcome(tw, counters, err, dup) ==
    [tweets |-> tw, incr |-> counters, error |-> err, dup |-> dup]

\* faulty variant: the IntegrityError of a duplicate id is not caught
collect_item_reraise(tw, it) ==
    LET r == filter_tweet(it, contains(it.text, S_fxinput))
        counters == <<K_collected>> \o r.incr
    IN IF r.ret = None THEN Outcome(tw, counters, "", FALSE)
       ELSE LET acc == r.ret[1]
                created_date == parse_created(acc.created_at)
            IN IF created_date = None THEN Outcome(tw, counters, "TypeError", FALSE)
               ELSE LET row == [tweet_id |-> acc.id, raw_json |-> json_dumps(acc),
                                locale |-> item_lang(acc), created |-> created_date[1]]
                        s == save(tw, row)
                    IN IF s.raised THEN Outcome(tw, counters, "IntegrityError", FALSE)
                       ELSE Outcome(s.tweets, counters \o <<K_saved>>, "", FALSE)

\* faulty variant: the result of _filter_tweet is not tested, the status is saved anyway
collect_item_unfiltered(tw, it) ==
    LET r == filter_tweet(it, contains(it.text, S_fxinput))
        counters == <<K_collected>> \o r.incr
        created_date == parse_created(it.created_at)
    IN IF created_date = None THEN Outcome(tw, counters, "TypeError", FALSE)
       ELSE LET row == [tweet_id |-> it.id, raw_json |-> json_dumps(it),
                        locale |-> item_lang(it), created |-> created_date[1]]
                s == save(tw, row)
            IN IF s.raised THEN Outcome(tw, counters, "", TRUE)
               ELSE Outcome(s.tweets, counters \o <<K_saved>>, "", FALSE)

\* the body of the loop over results['statuses'], for one status
collect_item(tw, it) ==
    LET r == filter_tweet(it, contains(it.text, S_fxinput))
        counters == <<K_collected>> \o r.incr
    IN IF r.ret = None THEN Outcome(tw, counters, "", FALSE)
       ELSE LET acc == r.ret[1]
                created_date == parse_created(acc.created_at)
            IN IF created_date = None THEN Outcome(tw, counters, "TypeError", FALSE)
               ELSE LET row == [tweet_id |-> acc.id, raw_json |-> json_dumps(acc),
                                locale |-> item_lang(acc), created |-> created_date[1]]
                        s == save(tw, row)
                    IN IF s.raised THEN Outcome(tw, counters, "", TRUE)
                       ELSE Outcome(s.tweets, counters \o <<K_saved>>, "", FALSE)

\* Tweet.objects.filter(locale=locale).order_by('-created')[n]: None for
\* IndexError.  Rows with equal created may come in either order; every
\* row the query can return has the same created, the only field read.
get_oldest_tweet(tw, locale, n) ==
    LET rows == RowsOf(tw, locale)
        newer(r) == BagCardinality(Restrict(tw, {q \in rows : q.created > r.created}))
        notOlder(r) == BagCardinality(Restrict(tw, {q \in rows : q.created >= r.created}))
    IN IF BagCardinality(Restrict(tw, rows)) <= n THEN None
       ELSE Some(CHOOSE r \in rows : newer(r) <= n /\ n < notOlder(r))

\* faulty variant: the delete uses created__lt, the cutoff row itself is kept
purge_locale_lt(tw, locale) ==
    LET oldest == get_oldest_tweet(tw, locale, CC_MAX_TWEETS)
    IN IF oldest # None
       THEN Restrict(tw, {r \in DOMAIN tw :
                            ~(r.locale = locale /\ r.created < oldest[1].created)})
       ELSE tw

\* one round of the loop of purge_tweets, for a locale that has a code
purge_locale(tw, locale) ==
    LET oldest == get_oldest_tweet(tw, locale, CC_MAX_TWEETS)
    IN IF oldest # None
       THEN Restrict(tw, {r \in DOMAIN tw :
                            ~(r.locale = locale /\ r.created <= oldest[1].created)})
       ELSE tw

\* the loop of purge_tweets over settings.SUMO_LANGUAGES, from position k
RECURSIVE purge_from(_, _)
purge_from(tw, k) ==
    IF k > Len(SUMO_LANGUAGES) THEN tw
    ELSE LET locale == LOCALES[SUMO_LANGUAGES[k]].iso639_1
         IN IF locale = "" THEN purge_from(tw, k + 1)
            ELSE purge_from(purge_locale(tw, locale), k + 1)

Init ==
    /\ stage \in BOOLEAN
    /\ tweets = EmptyBag
    /\ results = <<>>
    /\ since_id = None
    /\ deleted = EmptyBag
    /\ skipped = {}
    /\ statsd = NoCounts
    /\ pc = "idle"
    /\ error = ""
    /\ idx = 0
    /\ FilterBlank
    /\ StatsBlank

\* collect_tweets on dev and stage: returns at once
CollectStage ==
    /\ pc = "idle"
    /\ stage
    /\ pc' = "collected"
    /\ UNCHANGED <<statsd, error, idx>>
    /\ UNCHANGED store_vars
    /\ UNCHANGED filter_vars
    /\ UNCHANGED stats_vars

\* collect_tweets up to the search; an empty page ends the run.  The search
\* is an outside service: whatever cursor it is sent, the page is any
\* sequence of statuses, so a status already stored can come again.
CollectFetch(page) ==
    /\ pc = "idle"
    /\ ~stage
    /\ since_id' = (IF latest(tweets) = None THEN None
                    ELSE Some(latest(tweets)[1].tweet_id))
    /\ results' = page
    /\ IF Len(page) = 0
       THEN pc' = "collected" /\ idx' = 0
       ELSE pc' = "collect" /\ idx' = 1
    /\ UNCHANGED <<statsd, error, stage, tweets, deleted, skipped>>
    /\ UNCHANGED filter_vars
    /\ UNCHANGED stats_vars

\* one round of the loop over results['statuses']
CollectStep ==
    /\ pc = "collect"
    /\ LET o == collect_item(tweets, results[idx])
       IN /\ tweets' = o.tweets
          /\ statsd' = incr_all(statsd, o.incr)
          /\ error' = o.error
          /\ skipped' = (IF o.dup THEN skipped \cup {idx} ELSE skipped)
          /\ IF o.error # "" \/ idx = Len(results)
             THEN pc' = "collected" /\ idx' = idx
             ELSE pc' = "collect" /\ idx' = idx + 1
    /\ UNCHANGED <<stage, results, since_id, deleted>>
    /\ UNCHANGED filter_vars
    /\ UNCHANGED stats_vars

\* purge_tweets, the whole run
PurgeTweets ==
    /\ pc = "idle"
    /\ tweets' = purge_from(tweets, 1)
    /\ deleted' = tweets (-) tweets'
    /\ pc' = "purged"
    /\ UNCHANGED <<statsd, error, idx, stage, results, since_id, skipped>>
    /\ UNCHANGED filter_vars
    /\ UNCHANGED stats_vars

\* the job is over; the next one starts from the table it left
JobReturn ==
    /\ pc \in {"collected", "purged"}
    /\ pc' = "idle"
    /\ results' = <<>>
    /\ since_id' = None
    /\ deleted' = EmptyBag
    /\ skipped' = {}
    /\ statsd' = NoCounts
    /\ error' = ""
    /\ idx' = 0
    /\ UNCHANGED <<stage, tweets>>
    /\ UNCHANGED filter_vars
    /\ UNCHANGED stats_vars

Next ==
    \/ CollectStage
    \/ \E page \in PagesOf(CC_TWEETS_PERPAGE) : CollectFetch(page)
    \/ CollectStep
    \/ PurgeTweets
    \/ JobReturn

Spec == Init /\ [][Next]_vars

----------------------------------------------------------------------------
(* Claims about collect_tweets and purge_tweets, checked under Spec        *)

\* the locale codes purge_tweets visits
MappedLocales ==
    {LOCALES[SUMO_LANGUAGES[k]].iso639_1 : k \in 1..Len(SUMO_LANGUAGES)} \ {""}

\* number of rows of locale loc in the bag tw
CountOf(tw, loc) == BagCardinality(Restrict(tw, RowsOf(tw, loc)))

\* the rows of locale loc in tw have pairwise distinct creation times
DistinctTimes(tw, loc) ==
    \A r, q \in RowsOf(tw, loc) : (r.created = q.created) => (r = q /\ tw[r] = 1)

\* the table as purge_tweets found it
BeforePurge == tweets (+) deleted

\* C1: after purge_tweets, for every mapped locale: a locale that held
\* CC_MAX_TWEETS posts or fewer lost none; a locale that held more, with
\* pairwise distinct creation times, keeps exactly CC_MAX_TWEETS posts and
\* every kept post is newer than every deleted one.
C1_Retention ==
    pc = "purged" =>
        \A loc \in MappedLocales :
            /\ CountOf(BeforePurge, loc) <= CC_MAX_TWEETS => RowsOf(deleted, loc) = {}
            /\ (CountOf(BeforePurge, loc) > CC_MAX_TWEETS /\ DistinctTimes(BeforePurge, loc))
                  => /\ CountOf(tweets, loc) = CC_MAX_TWEETS
                     /\ \A r \in RowsOf(tweets, loc), d \in RowsOf(deleted, loc) :
                            r.created > d.created

C1_Witness ==
    /\ pc = "purged"
    /\ \E loc \in MappedLocales :
          /\ CountOf(BeforePurge, loc) > CC_MAX_TWEETS
          /\ DistinctTimes(BeforePurge, loc)
          /\ RowsOf(deleted, loc) # {}
          /\ CountOf(tweets, loc) = CC_MAX_TWEETS
    /\ \E loc \in MappedLocales :
          /\ RowsOf(BeforePurge, loc) # {}
          /\ CountOf(BeforePurge, loc) <= CC_MAX_TWEETS

\* number of rows of the table with tweet_id = id
CopiesOfId(id) ==
    BagCardinality(Restrict(tweets, {r \in DOMAIN tweets : r.tweet_id = id}))

\* the status passes _filter_tweet with allow_links computed from its own text
Passes(st) == filter_tweet(st, contains(st.text, S_fxinput)).ret # None

\* C2: an id is stored at most once; the IntegrityError of a duplicate
\* insert never leaves collect_tweets; after a duplicate at position i the
\* loop goes on with the statuses behind i and the id is stored exactly
\* once; a run that ends without error leaves every accepted status of the
\* page stored exactly once.
C2_Idempotent ==
    /\ \A r \in DOMAIN tweets : CopiesOfId(r.tweet_id) = 1
    /\ error # "IntegrityError"
    /\ \A i \in skipped :
          /\ CopiesOfId(results[i].id) = 1
          /\ (pc = "collect" => idx > i)
          /\ (pc = "collected" /\ error = "" => idx = Len(results))
    /\ (pc = "collected" /\ error = "")
          => \A i \in 1..Len(results) : Passes(results[i]) => CopiesOfId(results[i].id) = 1

C2_Witness ==
    /\ pc = "collected"
    /\ error = ""
    /\ 1 \in skipped
    /\ Len(results) >= 2
    /\ results[2].id # results[1].id
    /\ statsd[K_saved] = 1
    /\ CopiesOfId(results[1].id) = 1
    /\ CopiesOfId(results[2].id) = 1

\* C10: every stored post is a status that _filter_tweet accepts with
\* allow_links computed from its own text, with the fields of that status;
\* a run of collect_tweets that fetched an empty page leaves the table and
\* the counters as they were.
C10_OnlyAccepted ==
    /\ [](\A r \in DOMAIN tweets :
             /\ Passes(json_loads(r.raw_json))
             /\ r.tweet_id = json_loads(r.raw_json).id)
    /\ [][(pc = "idle" /\ pc' = "collected" /\ results' = <<>>)
             => (tweets' = tweets /\ statsd' = statsd /\ error' = "")]_vars

C10_Witness ==
    /\ pc = "collected"
    /\ error = ""
    /\ Len(results) = 2
    /\ ~Passes(results[1])
    /\ Passes(results[2])
    /\ statsd[K_link] = 1
    /\ statsd[K_saved] = 1
    /\ CopiesOfId(results[1].id) = 0
    /\ CopiesOfId(results[2].id) = 1

----------------------------------------------------------------------------
(* get_customercare_stats                                                  *)

\* settings.CC_TOP_CONTRIB_LIMIT
CC_TOP_CONTRIB_LIMIT == 2

\* most rows the Reply table holds
MaxReplies == 4

\* days of the three windows
DaysMonth == 30
DaysWeek == 7
DaysDay == 1

\* the payload of a reply collected with the v1 API: the profile is at top level
RawV1(name, avatar) ==
    [from_user |-> name, profile_image_url |-> <<"http", avatar>>,
     profile_image_url_https |-> <<"https", avatar>>]

\* the payload of a later reply: the profile is under 'user'
RawV11(avatar) ==
    [user |-> [profile_image_url |-> <<"http", avatar>>,
               profile_image_url_https |-> <<"https", avatar>>]]

ReplyRow(id, name, raw, created) ==
    [id |-> id, twitter_username |-> name, raw_json |-> json_dumps(raw),
     created |-> created]

\* the rows the Reply table is drawn from; times are in days
ReplyPool ==
    { ReplyRow(1, "A", RawV11("a1.png"), 100),
      ReplyRow(2, "A", RawV1("A", "a2.png"), 92),
      ReplyRow(3, "A", RawV11("a1.png"), 60),
      ReplyRow(4, "B", RawV11("b1.png"), 100),
      ReplyRow(5, "B", RawV1("B", "b1.png"), 98),
      ReplyRow(6, "C", RawV11("c1.png"), 100) }

NowValues == {100, 101}

SortKeys == {"all", "1m", "1w", "1d"}

\* the dict a first reply of user creates
new_contributor(user, user_data) ==
    ("twitter_username" :> user) @@ ("avatar" :> user_data.profile_image_url)
        @@ ("avatar_https" :> user_data.profile_image_url_https)
        @@ ("all" :> 0) @@ ("1m" :> 0) @@ ("1w" :> 0) @@ ("1d" :> 0)

\* faulty variant: the week counter is tested against the month boundary and the
\* month counter against the week boundary
count_reply_swapped(c, created, t) ==
    LET one_month_ago == t - DaysMonth
        one_week_ago == t - DaysWeek
        yesterday == t - DaysDay
        c1 == [c EXCEPT !["all"] = @ + 1]
    IN IF created > one_month_ago
       THEN LET c2 == [c1 EXCEPT !["1w"] = @ + 1]
            IN IF created > one_week_ago
               THEN LET c3 == [c2 EXCEPT !["1m"] = @ + 1]
                    IN IF created > yesterday
                       THEN [c3 EXCEPT !["1d"] = @ + 1]
                       ELSE c3
               ELSE c2
       ELSE c1

\* faulty variant: the day boundary is inclusive
count_reply_inclusive(c, created, t) ==
    LET one_month_ago == t - DaysMonth
        one_week_ago == t - DaysWeek
        yesterday == t - DaysDay
        c1 == [c EXCEPT !["all"] = @ + 1]
    IN IF created > one_month_ago
       THEN LET c2 == [c1 EXCEPT !["1m"] = @ + 1]
            IN IF created > one_week_ago
               THEN LET c3 == [c2 EXCEPT !["1w"] = @ + 1]
                    IN IF created >= yesterday
                       THEN [c3 EXCEPT !["1d"] = @ + 1]
                       ELSE c3
               ELSE c2
       ELSE c1

\* the nested increments of the loop body: the counters of contributor c
\* after a reply created at `created`, the job running at time t
count_reply(c, created, t) ==
    LET one_month_ago == t - DaysMonth
        one_week_ago == t - DaysWeek
        yesterday == t - DaysDay
        c1 == [c EXCEPT !["all"] = @ + 1]
    IN IF created > one_month_ago
       THEN LET c2 == [c1 EXCEPT !["1m"] = @ + 1]
            IN IF created > one_week_ago
               THEN LET c3 == [c2 EXCEPT !["1w"] = @ + 1]
                    IN IF created > yesterday
                       THEN [c3 EXCEPT !["1d"] = @ + 1]
                       ELSE c3
               ELSE c2
       ELSE c1

\* the body of the loop over Reply.objects.all(), for one reply
process_reply(stats, reply, t) ==
    LET raw == json_loads(reply.raw_json)
        user == reply.twitter_username
        user_data == IF "from_user" \in DOMAIN raw THEN raw ELSE raw.user
        known == IF user \in DOMAIN stats THEN stats
                 ELSE stats @@ (user :> new_contributor(user, user_data))
    IN [known EXCEPT ![user] = count_reply(@, reply.created, t)]

\* the key of the sort: (c[sort_key], c['all'])
KeyGE(a, b, key) ==
    \/ a[key] > b[key]
    \/ a[key] = b[key] /\ a["all"] >= b["all"]

\* x put into the descending sequence srt behind every element whose key is
\* not smaller: elements of equal key keep the order they came in
RECURSIVE insert_desc(_, _, _)
insert_desc(srt, x, key) ==
    IF srt = <<>> THEN <<x>>
    ELSE IF KeyGE(Head(srt), x, key) THEN <<Head(srt)>> \o insert_desc(Tail(srt), x, key)
    ELSE <<x>> \o srt

\* sorted(vals, key=..., reverse=True): a stable sort
RECURSIVE sorted_desc(_, _)
sorted_desc(vals, key) ==
    IF vals = <<>> THEN <<>>
    ELSE insert_desc(sorted_desc(SubSeq(vals, 1, Len(vals) - 1), key), vals[Len(vals)], key)

\* seq[:n]
slice_to(seq, n) == SubSeq(seq, 1, IF Len(seq) < n THEN Len(seq) ELSE n)

\* faulty variant: the sort key is c[sort_key] alone, without the tie-break on 'all'
RECURSIVE insert_desc_primary(_, _, _)
insert_desc_primary(srt, x, key) ==
    IF srt = <<>> THEN <<x>>
    ELSE IF Head(srt)[key] >= x[key]
         THEN <<Head(srt)>> \o insert_desc_primary(Tail(srt), x, key)
    ELSE <<x>> \o srt

RECURSIVE sorted_desc_primary(_, _)
sorted_desc_primary(vals, key) ==
    IF vals = <<>> THEN <<>>
    ELSE insert_desc_primary(sorted_desc_primary(SubSeq(vals, 1, Len(vals) - 1), key),
                             vals[Len(vals)], key)

rank_primary_only(vals, key, limit) == slice_to(sorted_desc_primary(vals, key), limit)

\* sorted(contributor_stats.values(), key=..., reverse=True)[:limit]
rank(vals, key, limit) == slice_to(sorted_desc(vals, key), limit)

\* the orders in which dict.values() can list the values of the dict d
ValueOrders(d) ==
    {[i \in 1..Cardinality(DOMAIN d) |-> d[f[i]]] :
        f \in {g \in [1..Cardinality(DOMAIN d) -> DOMAIN d] :
                 \A i, j \in 1..Cardinality(DOMAIN d) : g[i] = g[j] => i = j}}

Published(c, counters, returned) == [cache |-> c, incr |-> counters, ret |-> returned]

\* faulty variant: a RedisError ends the job without the list
publish_or_nothing(old_cache, lst, ok) ==
    IF ok THEN Published(json_dumps(lst), <<>>, Some(lst))
    ELSE Published(old_cache, <<K_redis_error>>, None)

\* the try block around redis.set and the return
publish(old_cache, lst, ok) ==
    IF ok THEN Published(json_dumps(lst), <<>>, Some(lst))
    ELSE Published(old_cache, <<K_redis_error>>, Some(lst))

InitStats ==
    /\ replies \in {tbl \in SUBSET ReplyPool : Cardinality(tbl) <= MaxReplies}
    /\ now \in NowValues
    /\ sort_key \in SortKeys
    /\ yielded = {}
    /\ contributor_stats = <<>>
    /\ ranked = <<>>
    /\ result = None
    /\ prev_result = None
    /\ cache = None
    /\ redis_ok = TRUE
    /\ statsd = NoCounts
    /\ pc = "idle"
    /\ error = ""
    /\ idx = 0
    /\ FilterBlank
    /\ StoreBlank

\* get_customercare_stats is called: the dict is empty
StatsStart ==
    /\ pc \in {"idle", "done"}
    /\ pc' = "loop"
    /\ contributor_stats' = <<>>
    /\ yielded' = {}
    /\ ranked' = <<>>
    /\ prev_result' = result
    /\ result' = None
    /\ statsd' = NoCounts
    /\ UNCHANGED <<replies, now, sort_key, cache, redis_ok, error, idx>>
    /\ UNCHANGED filter_vars
    /\ UNCHANGED store_vars

\* one round of the loop: the table yields a row it has not yielded yet
StatsStep(reply) ==
    /\ pc = "loop"
    /\ reply \in replies \ yielded
    /\ contributor_stats' = process_reply(contributor_stats, reply, now)
    /\ yielded' = yielded \cup {reply}
    /\ UNCHANGED <<replies, now, sort_key, ranked, result, prev_result, cache, redis_ok>>
    /\ UNCHANGED <<statsd, pc, error, idx>>
    /\ UNCHANGED filter_vars
    /\ UNCHANGED store_vars

\* the loop is over: sort and slice
StatsSort(vals) ==
    /\ pc = "loop"
    /\ yielded = replies
    /\ ranked' = rank(vals, sort_key, CC_TOP_CONTRIB_LIMIT)
    /\ pc' = "sorted"
    /\ UNCHANGED <<replies, now, sort_key, yielded, contributor_stats, result,
                   prev_result, cache, redis_ok>>
    /\ UNCHANGED <<statsd, error, idx>>
    /\ UNCHANGED filter_vars
    /\ UNCHANGED store_vars

\* the redis write, which goes through or raises RedisError, and the return
StatsPublish(ok) ==
    /\ pc = "sorted"
    /\ LET p == publish(cache, ranked, ok)
       IN /\ cache' = p.cache
          /\ statsd' = incr_all(statsd, p.incr)
          /\ result' = p.ret
    /\ redis_ok' = ok
    /\ pc' = "done"
    /\ UNCHANGED <<replies, now, sort_key, yielded, contributor_stats, ranked, prev_result>>
    /\ UNCHANGED <<error, idx>>
    /\ UNCHANGED filter_vars
    /\ UNCHANGED store_vars

NextStats ==
    \/ StatsStart
    \/ \E reply \in ReplyPool : StatsStep(reply)
    \/ \E vals \in ValueOrders(contributor_stats) : StatsSort(vals)
    \/ \E ok \in BOOLEAN : StatsPublish(ok)

SpecStats == InitStats /\ [][NextStats]_vars

----------------------------------------------------------------------------
(* Claims about get_customercare_stats, checked under SpecStats            *)

\* rows of the set rows written by user
RepliesOf(rows, user) == {r \in rows : r.twitter_username = user}

Nested(c) == c["1d"] <= c["1w"] /\ c["1w"] <= c["1m"] /\ c["1m"] <= c["all"]

\* C6: during a run, after every processed reply, and in the list the run
\* returns, every contributor has 1d <= 1w <= 1m <= all, and 'all' is the
\* number of replies of that author processed so far.
C6_NestedCounters ==
    /\ pc \in {"loop", "sorted", "done"} =>
          \A user \in DOMAIN contributor_stats :
              /\ Nested(contributor_stats[user])
              /\ contributor_stats[user]["all"] = Cardinality(RepliesOf(yielded, user))
    /\ (pc = "done" /\ result # None) =>
          \A i \in 1..Len(result[1]) :
              /\ Nested(result[1][i])
              /\ result[1][i]["all"]
                    = Cardinality(RepliesOf(replies, result[1][i]["twitter_username"]))

C6_Witness ==
    /\ pc = "loop"
    /\ yielded # replies
    /\ \E user \in DOMAIN contributor_stats :
          /\ 0 < contributor_stats[user]["1d"]
          /\ contributor_stats[user]["1w"] < contributor_stats[user]["1m"]
          /\ contributor_stats[user]["1m"] < contributor_stats[user]["all"]

\* a ranks strictly above b: greater primary counter, or equal primary
\* counter and greater 'all'
RanksAbove(a, b) ==
    \/ a[sort_key] > b[sort_key]
    \/ a[sort_key] = b[sort_key] /\ a["all"] > b["all"]

\* C7: the returned list is in descending order of the primary counter,
\* ties in descending order of 'all'; it has at most CC_TOP_CONTRIB_LIMIT
\* entries, each username at most once, every entry is the stats of its
\* user, and no contributor left out ranks strictly above a listed one.
C7_Ranking ==
    (pc = "done" /\ result # None) =>
        LET lst == result[1]
            listed == {lst[i]["twitter_username"] : i \in 1..Len(lst)}
        IN /\ Len(lst) <= CC_TOP_CONTRIB_LIMIT
           /\ \A i, j \in 1..Len(lst) :
                 /\ i < j => ~RanksAbove(lst[j], lst[i])
                 /\ lst[i]["twitter_username"] = lst[j]["twitter_username"] => i = j
           /\ \A i \in 1..Len(lst) :
                 /\ lst[i]["twitter_username"] \in DOMAIN contributor_stats
                 /\ lst[i] = contributor_stats[lst[i]["twitter_username"]]
           /\ \A user \in DOMAIN contributor_stats \ listed :
                 \A i \in 1..Len(lst) : ~RanksAbove(contributor_stats[user], lst[i])

C7_Witness ==
    /\ pc = "done"
    /\ result # None
    /\ Len(result[1]) = CC_TOP_CONTRIB_LIMIT
    /\ Cardinality(DOMAIN contributor_stats) > CC_TOP_CONTRIB_LIMIT
    /\ sort_key # "all"
    /\ result[1][1][sort_key] = result[1][2][sort_key]
    /\ result[1][1]["all"] > result[1][2]["all"]

\* C8: the step from the sorted list to the return: the run returns the
\* sorted, sliced list whether or not redis raised; when it raised, the
\* redis.error counter goes up by one and the cached value stays; when it
\* did not, the cached value is the serialization of the returned list and
\* the counter stays.
C8_Publication ==
    [][(pc = "sorted" /\ pc' = "done") =>
          /\ result' = Some(ranked)
          /\ ranked' = ranked
          /\ IF redis_ok'
             THEN /\ cache' = json_dumps(result'[1])
                  /\ statsd'[K_redis_error] = statsd[K_redis_error]
             ELSE /\ cache' = cache
                  /\ statsd'[K_redis_error] = statsd[K_redis_error] + 1]_vars

C8_Witness ==
    /\ pc = "done"
    /\ ~redis_ok
    /\ statsd[K_redis_error] = 1
    /\ result = Some(ranked)
    /\ Len(ranked) > 0
    /\ cache # None
    /\ cache # json_dumps(ranked)

\* number of rows of author user in the table created after boundary
CountAfter(user, boundary) ==
    Cardinality({r \in RepliesOf(replies, user) : r.created > boundary})

\* the (primary counter, all) pairs of a list, in order
RankKeys(lst) == [i \in 1..Len(lst) |-> <<lst[i][sort_key], lst[i]["all"]>>]

\* C9 as stated: a run over the same table at the same time returns the
\* same sequence as the run before it, whatever the order of the rows.
C9_AsStated ==
    (pc = "done" /\ result # None /\ prev_result # None) => result = prev_result

\* C9 amended: two runs over the same table at the same time return lists
\* with the same sequence of (primary counter, all) pairs, and every listed
\* contributor has the counters that the table and the time fix: the
\* numbers of its replies in all and newer than 30, 7 and 1 days.  The
\* avatar URLs are those of the author's reply that came first, and the
\* order of contributors equal in both counters is not fixed.
C9_DeterminedCounters ==
    (pc = "done" /\ result # None) =>
        /\ prev_result # None => RankKeys(result[1]) = RankKeys(prev_result[1])
        /\ \A i \in 1..Len(result[1]) :
              LET c == result[1][i]
                  user == c["twitter_username"]
              IN /\ c["all"] = Cardinality(RepliesOf(replies, user))
                 /\ c["1m"] = CountAfter(user, now - 30)
                 /\ c["1w"] = CountAfter(user, now - 7)
                 /\ c["1d"] = CountAfter(user, now - 1)
                 /\ \E r \in RepliesOf(replies, user) :
                       LET raw == json_loads(r.raw_json)
                           data == IF "from_user" \in DOMAIN raw THEN raw ELSE raw.user
                       IN /\ c["avatar"] = data.profile_image_url
                          /\ c["avatar_https"] = data.profile_image_url_https

C9_Witness ==
    /\ pc = "done"
    /\ result # None
    /\ prev_result # None
    /\ result # prev_result
    /\ Len(result[1]) = CC_TOP_CONTRIB_LIMIT
    /\ RankKeys(result[1]) = RankKeys(prev_result[1])

====
